---- MODULE Spec2Model ----
(***************************************************************************)
(* Model of gmalg/ellipticcurve.py: affine elliptic-curve arithmetic       *)
(* (EllipticCurve), the discrete-log bundle (ECDLP) and the BN R-ate       *)
(* pairing engine (BNBIDH).                                                *)
(*                                                                         *)
(* Values.  A base-field element is an integer in 0..p-1.  An Fp2 element  *)
(* is a pair <<x1, x0>> (x1*u + x0, u^2 = -2), an Fp4 element a pair of    *)
(* Fp2 elements <<y1, y0>> (y1*v + y0, v^2 = u), an Fp12 element a triple  *)
(* of Fp4 elements <<z2, z1, z0>> (z2*w^2 + z1*w + z0, w^3 = v).  A point  *)
(* is a pair <<x, y>> of elements of one level.  Python floats that the    *)
(* code lets into coordinates (EllipticCurve.INF is a pair of float        *)
(* infinities) are the negative integers PyInf, PyNegInf and PyNaN.        *)
(* An exception raised by an operation is a point whose coordinates are    *)
(* an error code; it propagates through the calls that receive it.         *)
(***************************************************************************)
EXTENDS Integers, Sequences, FiniteSets, TLC

(***************************************************************************)
(* Bounds of the model.                                                    *)
(***************************************************************************)
\* scalars k of EllipticCurve.mul / ECDLP.kG range over -MaxNegK..MaxK
MaxK == 14
MaxNegK == 3

(***************************************************************************)
(* Python values that are not field elements.                              *)
(***************************************************************************)
\* float("inf"), the coordinate of EllipticCurve.INF
PyInf == -1
\* the result of the base field's neg on float inf: -inf (p - x) or nan
\* ((-x) % p); in both readings a float that compares unequal to PyInf
PyNegInf == -2
\* float nan: the result of any other modular operation on a float operand
PyNaN == -3
\* errors.UnknownError raised by add / _g_fn
ErrUnknown == -8

IsFloat(x) == x \in {PyInf, PyNegInf, PyNaN}

\* Python == on numbers: nan equals nothing, itself included
PyEq(x, y) == x # PyNaN /\ y # PyNaN /\ x = y

(***************************************************************************)
(* Integer arithmetic mod p that stays within TLC's integers.  Python      *)
(* integers are exact whatever their size; these operators compute the     *)
(* same residues for 0 <= x, y < p < 2^31.                                  *)
(***************************************************************************)
\* (x + y) % p
AddMod(p, x, y) == (x - (p - y)) % p

\* (x - y) % p
SubMod(p, x, y) == (x - y) % p

\* (a * x) % p for a factor a with a * a <= p (Schrage's decomposition
\* p = a*q + r with r < q)
MulSmall(p, a, x) ==
    IF a = 0 THEN 0
    ELSE (a * (x % (p \div a)) - (p % a) * (x \div (p \div a))) % p

RECURSIVE MulModSlow(_, _, _)
\* (x * y) % p by doubling
MulModSlow(p, x, y) ==
    IF x = 0 THEN 0
    ELSE LET h == MulModSlow(p, x \div 2, y)
         IN  IF x % 2 = 1 THEN AddMod(p, AddMod(p, h, h), y)
             ELSE AddMod(p, h, h)

\* (x * y) % p for 2^30 <= p: x = x2*2^30 + x1*2^15 + x0, and y1 = 2^15*y
MulModWide(p, x, y, y1) ==
    AddMod(p, AddMod(p, MulSmall(p, (x \div 32768) % 32768, y1),
                     MulSmall(p, x % 32768, y)),
           IF x \div 1073741824 = 0 THEN 0 ELSE MulSmall(p, 32768, y1))

\* (x * y) % p
MulMod(p, x, y) ==
    IF p <= 46341 THEN (x * y) % p
    ELSE IF p >= 1073741824 THEN MulModWide(p, x, y, MulSmall(p, 32768, y))
    ELSE MulModSlow(p, x, y)

(***************************************************************************)
(* The field library (module primefield): PrimeField, PrimeField2,         *)
(* PrimeField4 and PrimeField12 over Fp, Fp2 = Fp[u]/(u^2 + 2),            *)
(* Fp4 = Fp2[v]/(v^2 - u) and Fp12 = Fp4[w]/(w^3 - v).  A field object is  *)
(* the record [k |-> degree over Fp, p |-> modulus]; an element of degree  *)
(* k > 1 is the tuple of its coefficients over the field below, highest    *)
(* first.  Every method is an arm of the recursive operator Invoke,        *)
(* defined below, which takes the call as the message                      *)
(* <<method, k, p, x, y>>.                                                 *)
(***************************************************************************)
Field(k, p) == [k |-> k, p |-> p]

\* the degree of the field below the field of degree k
Below(k) == CASE k = 2 -> 1 [] k = 4 -> 2 [] k = 12 -> 4

RECURSIVE Lift(_, _)
\* the integer c as coefficient of every basis element of the field of
\* degree k
Lift(k, c) ==
    IF k = 1 THEN c
    ELSE IF k = 12 THEN <<Lift(4, c), Lift(4, c), Lift(4, c)>>
    ELSE <<Lift(Below(k), c), Lift(Below(k), c)>>

RECURSIVE Extend(_, _)
\* extend: the element a of Fp in the field of degree k
Extend(k, a) ==
    IF k = 1 THEN a
    ELSE IF k = 12 THEN <<Lift(4, 0), Lift(4, 0), Extend(4, a)>>
    ELSE <<Lift(Below(k), 0), Extend(Below(k), a)>>

RECURSIVE Invoke(_)

KAdd(k, p, x, y) == Invoke(<<"add", k, p, x, y>>)
KSub(k, p, x, y) == Invoke(<<"sub", k, p, x, y>>)
KNeg(k, p, x) == Invoke(<<"neg", k, p, x, 0>>)
KMul(k, p, x, y) == Invoke(<<"mul", k, p, x, y>>)
KSmul(k, p, c, x) == Invoke(<<"smul", k, p, x, c>>)
KInv(k, p, x) == Invoke(<<"inv", k, p, x, 0>>)
KPow(k, p, x, e) == Invoke(<<"pow", k, p, x, e>>)
KFrob(k, p, x) == Invoke(<<"frob", k, p, x, 0>>)
\* xi * x for x in the field below degree k, xi the square (cube for
\* k = 12) of the generator of degree k: -2, u, v
KXi(k, p, x) == Invoke(<<"xi", k, p, x, 0>>)

\* x^2 in Fp
Sq(p, x) == KMul(1, p, x, x)

\* x^d % p for 0 <= d < 16
Pow16(p, x, d) ==
    IF d = 0 THEN 1 % p
    ELSE LET x2 == Sq(p, x)
             x4 == Sq(p, x2)
             x8 == Sq(p, x4)
         IN  IF 0 \in {x2, x4, x8} THEN 0
             ELSE KMul(1, p,
                       KMul(1, p, IF d % 2 = 1 THEN x ELSE 1,
                            IF (d \div 2) % 2 = 1 THEN x2 ELSE 1),
                       KMul(1, p, IF (d \div 4) % 2 = 1 THEN x4 ELSE 1,
                            IF d \div 8 = 1 THEN x8 ELSE 1))

RECURSIVE PowMod(_, _, _)
\* x^e % p (Python pow(x, e, p)), eight bits of e at a time:
\* x^e = (x^(e div 256))^256 * (x^d1)^16 * x^d0
PowMod(p, x, e) ==
    IF e = 0 THEN 1 % p
    ELSE LET h == PowMod(p, x, e \div 256)
             h2 == Sq(p, h)
             h4 == Sq(p, h2)
             h8 == Sq(p, h4)
             h16 == Sq(p, h8)
             h32 == Sq(p, h16)
             h64 == Sq(p, h32)
             h128 == Sq(p, h64)
             h256 == Sq(p, h128)
             a == Pow16(p, x, (e \div 16) % 16)
             a2 == Sq(p, a)
             a4 == Sq(p, a2)
             a8 == Sq(p, a4)
             a16 == Sq(p, a8)
             b == Pow16(p, x, e % 16)
         IN  IF 0 \in {h, h2, h4, h8, h16, h32, h64, h128, h256,
                       a, a2, a4, a8, a16, b}
             THEN 0
             ELSE KMul(1, p, KMul(1, p, h256, a16), b)

\* the methods of a field object F
FZero(F) == Lift(F.k, 0)
FOne(F) == Extend(F.k, 1 % F.p)
FExtend(F, a) == Extend(F.k, a)
FAdd(F, x, y) == KAdd(F.k, F.p, x, y)
FSub(F, x, y) == KSub(F.k, F.p, x, y)
FNeg(F, x) == KNeg(F.k, F.p, x)
FMul(F, x, y) == KMul(F.k, F.p, x, y)
FSmul(F, c, x) == KSmul(F.k, F.p, c, x)
FInv(F, x) == KInv(F.k, F.p, x)
FPow(F, x, e) == KPow(F.k, F.p, x, e)
FFrob(F, x) == KFrob(F.k, F.p, x)
\* Python == on two elements of F
FEq(F, x, y) == IF F.k = 1 THEN PyEq(x, y) ELSE x = y
FIsOppo(F, x, y) == FEq(F, x, FNeg(F, y))

(***************************************************************************)
(* class EllipticCurve.  A curve is [fp |-> Field, a |-> a, b |-> b].      *)
(***************************************************************************)
Curve(F, a, b) == [fp |-> F, a |-> a, b |-> b]

\* EllipticCurve.INF, for a curve over the level of F
INF(F) == <<Lift(F.k, PyInf), Lift(F.k, PyInf)>>

\* the exception e leaving a call that was to return a point
Raised(F, e) == <<Lift(F.k, e), Lift(F.k, e)>>
IsRaised(F, P) == P = Raised(F, ErrUnknown)

get_y_sqr(C, x) ==
    LET fp == C.fp
    IN  FAdd(fp, FPow(fp, x, 3), FAdd(fp, FMul(fp, C.a, x), C.b))

isvalid(C, P) ==
    LET x == P[1]
        y == P[2]
    IN  FEq(C.fp, FMul(C.fp, y, y), get_y_sqr(C, x))

neg(C, P) ==
    LET x == P[1]
        y == P[2]
    IN  <<x, FNeg(C.fp, y)>>

\* x3, y3 of add from the slope lam
AddFromSlope(fp, lam, x1, y1, x2) ==
    LET x3 == FSub(fp, FMul(fp, lam, lam), FAdd(fp, x1, x2))
        y3 == FSub(fp, FMul(fp, lam, FSub(fp, x1, x3)), y1)
    IN  <<x3, y3>>

\* AddSameX with the y coordinates never compared: equal x always taken
\* for a pair of opposite points
AddSameXOpposite(C, P1, P2) == INF(C.fp)

\* the branch x1 == x2 of add
AddSameX(C, P1, P2) ==
    LET fp == C.fp
        x1 == P1[1]
        y1 == P1[2]
        x2 == P2[1]
        y2 == P2[2]
    IN  IF FIsOppo(fp, y1, y2) THEN INF(fp)
        ELSE IF FEq(fp, y1, y2)
             THEN AddFromSlope(fp,
                      FMul(fp, FAdd(fp, C.a, FSmul(fp, 3, FMul(fp, x1, x1))),
                           FInv(fp, FSmul(fp, 2, y1))),
                      x1, y1, x2)
             ELSE Raised(fp, ErrUnknown)

\* the branch x1 != x2 of add
AddChord(C, P1, P2) ==
    LET fp == C.fp
        x1 == P1[1]
        y1 == P1[2]
        x2 == P2[1]
        y2 == P2[2]
    IN  AddFromSlope(fp,
            FMul(fp, FSub(fp, y2, y1), FInv(fp, FSub(fp, x2, x1))),
            x1, y1, x2)

add(C, P1, P2) ==
    IF IsRaised(C.fp, P1) THEN P1
    ELSE IF IsRaised(C.fp, P2) THEN P2
    ELSE IF P1 = INF(C.fp) THEN P2
    ELSE IF P2 = INF(C.fp) THEN P1
    ELSE IF FEq(C.fp, P1[1], P2[1]) THEN AddSameX(C, P1, P2)
    ELSE AddChord(C, P1, P2)

sub(C, P1, P2) == add(C, P1, neg(C, P2))

RECURSIVE BinDigits(_)
\* the binary digits of n >= 0, most significant first
BinDigits(n) ==
    IF n < 2 THEN <<IF n = 1 THEN "1" ELSE "0">>
    ELSE Append(BinDigits(n \div 2), IF n % 2 = 1 THEN "1" ELSE "0")

\* f"{k:b}"
BinStr(k) == IF k < 0 THEN <<"-">> \o BinDigits(-k) ELSE BinDigits(k)

\* MulStep with the test of the character inverted
MulStepInverted(C, i, P, D) == IF i = "0" THEN add(C, D, P) ELSE D

\* one pass of the loop of mul for the character i, D the doubled
\* accumulator
MulStep(C, i, P, D) == IF i = "1" THEN add(C, D, P) ELSE D

RECURSIVE MulLoop(_, _, _, _)
\* the loop of mul over the characters left, Q the accumulator
MulLoop(C, bits, P, Q) ==
    IF bits = <<>> THEN Q
    ELSE MulLoop(C, Tail(bits), P, MulStep(C, Head(bits), P, add(C, Q, Q)))

mul(C, k, P) == MulLoop(C, Tail(BinStr(k)), P, P)

(***************************************************************************)
(* class ECDLP: [ec |-> curve, G |-> base point, n |-> order of G].        *)
(***************************************************************************)
\* ECDLP.__init__
NewECDLP(C, G, n) == [ec |-> C, G |-> G, n |-> n]

kG(D, k) == mul(D.ec, k, D.G)

(***************************************************************************)
(* class BNBIDH.  The object is the record of its attributes; a            *)
(* constructor call that raises leaves the record [error |-> name].        *)
(***************************************************************************)
\* BNBIDH.__init__ past the test of beta, p the value of self.p
BNBIDHInit(t, b, beta, G1, G2, p) ==
    [t |-> t,
     p |-> p,
     n |-> 36 * t * t * t * t + 36 * t * t * t + 18 * t * t + 6 * t + 1,
     fpk |-> Field(12, p),
     fp2 |-> Field(2, p),
     fp1 |-> Field(1, p),
     ec2 |-> Curve(Field(2, p), FZero(Field(2, p)),
                   FMul(Field(2, p), beta, FExtend(Field(2, p), b))),
     G1 |-> G1,
     G2 |-> G2,
     _a |-> 6 * t + 2,
     _neg2 |-> FNeg(Field(1, p), 2),
     _inv_neg2 |-> FInv(Field(1, p), FNeg(Field(1, p), 2))]

\* BNBIDH.__init__ without the test of beta
BNBIDHAnyBeta(t, b, beta, G1, G2) ==
    BNBIDHInit(t, b, beta, G1, G2,
        36 * t * t * t * t + 36 * t * t * t + 24 * t * t + 6 * t + 1)

\* BNBIDH.__init__
BNBIDH(t, b, beta, G1, G2) ==
    IF beta # <<1, 0>> THEN [error |-> "NotImplementedError"]
    ELSE BNBIDHInit(t, b, beta, G1, G2,
             36 * t * t * t * t + 36 * t * t * t + 24 * t * t + 6 * t + 1)

\* the value of _g_fn in the branches that compute a slope lam
LineValue(fpk, lam, V, Q) ==
    FSub(fpk, FMul(fpk, lam, FSub(fpk, Q[1], V[1])), FSub(fpk, Q[2], V[2]))

\* _g_fn; a raised UnknownError is the element Lift(12, ErrUnknown)
_g_fn(bn, U, V, Q) ==
    LET fpk == bn.fpk
    IN  IF U = INF(fpk) \/ V = INF(fpk) \/ Q = INF(fpk) THEN FOne(fpk)
        ELSE IF U[1] = V[1]
        THEN IF FIsOppo(fpk, U[2], V[2])
             THEN <<FSub(fpk, Q[1], V[1]), FOne(fpk)>>
             ELSE IF U[2] = V[2]
             THEN LineValue(fpk,
                      FMul(fpk, FSmul(fpk, 3, FMul(fpk, V[1], V[1])),
                           FInv(fpk, FSmul(fpk, 2, V[2]))),
                      V, Q)
             ELSE Lift(12, ErrUnknown)
        ELSE LineValue(fpk,
                 FMul(fpk, FSub(fpk, U[2], V[2]),
                      FInv(fpk, FSub(fpk, U[1], V[1]))),
                 V, Q)

_phi(bn, P) ==
    LET _i2 == bn._inv_neg2
        x_ == P[1]
        y_ == P[2]
    IN  <<<<<<<<0, 0>>, <<0, 0>>>>,
            <<<<FMul(bn.fp1, x_[2], _i2), x_[1]>>, <<0, 0>>>>,
            <<<<0, 0>>, <<0, 0>>>>>>,
          <<<<<<0, 0>>, <<0, 0>>>>,
            <<<<0, 0>>, <<0, 0>>>>,
            <<<<FMul(bn.fp1, y_[2], _i2), y_[1]>>, <<0, 0>>>>>>>>

\* _phi_inv reading the two coefficients of the slot in the order _phi
\* wrote them
PhiInvUnswapped(bn, P) ==
    <<<<FMul(bn.fp1, P[1][2][1][1], bn._neg2), P[1][2][1][2]>>,
      <<FMul(bn.fp1, P[2][3][1][1], bn._neg2), P[2][3][1][2]>>>>

_phi_inv(bn, P) ==
    <<<<P[1][2][1][2], FMul(bn.fp1, P[1][2][1][1], bn._neg2)>>,
      <<P[2][3][1][2], FMul(bn.fp1, P[2][3][1][1], bn._neg2)>>>>


\* _finalexp; f0 and f1 are the argument f and its value after line 201
_finalexp(bn, f0) ==
    LET M(x, y) == FMul(bn.fpk, x, y)
        I(x) == FInv(bn.fpk, x)
        P(x, k) == FPow(bn.fpk, x, k)
        F(x) == FFrob(bn.fpk, x)
        \* easy part
        f1 == M(F(F(F(F(F(F(f0)))))), I(f0))
        f == M(F(F(f1)), f1)
        \* hard part
        f_t == P(f, bn.t)
        f_t2 == P(f_t, bn.t)
        f_t3 == P(f_t2, bn.t)
        f_p == F(f)
        f_p2 == F(f_p)
        f_p3 == F(f_p2)
        f_t_p == F(f_t)
        f_t2_p == F(f_t2)
        f_t3_p == F(f_t3)
        f_t2_p2 == F(f_t2_p)
        y6 == P(M(f_t3, f_t3_p), 36)
        y5 == P(f_t2, 30)
        y4 == P(M(f_t2_p, f_t), 18)
        y3 == P(f_t_p, 12)
        y2 == P(f_t2_p2, 6)
        y1 == M(f, f)
        y0 == M(f_p, M(f_p2, f_p3))
        f_num == M(y2, y0)
        f_den == M(y6, M(y5, M(y4, M(y3, y1))))
    IN  M(f_num, I(f_den))

\* e, lines 237-246: the local variables on entry to the loop; chars is
\* what the loop has still to iterate over, iters counts its iterations,
\* <<>> is a variable not yet assigned
EEnter(bn, P, Q) ==
    [_P |-> <<FExtend(bn.fpk, P[1]), FExtend(bn.fpk, P[2])>>,
     _Q |-> _phi(bn, Q),
     Q |-> Q,
     T |-> Q,
     f |-> FOne(bn.fpk),
     chars |-> Tail(BinStr(bn._a)),
     iters |-> 0,
     _Q1 |-> <<>>,
     _Q2 |-> <<>>]

\* EAdd with the running point left where it is
EAddNoAdvance(bn, L) ==
    [L EXCEPT
        !.f = FMul(bn.fpk, L.f, _g_fn(bn, _phi(bn, L.T), L._Q, L._P))]

\* EAdd with the line value left out of f
EAddNoLine(bn, L) == [L EXCEPT !.T = add(bn.ec2, L.T, L.Q)]

\* e, lines 248-251: the doubling step of an iteration
EDouble(bn, L) ==
    [L EXCEPT
        !.f = FMul(bn.fpk, FMul(bn.fpk, L.f, L.f),
                   _g_fn(bn, _phi(bn, L.T), _phi(bn, L.T), L._P)),
        !.T = add(bn.ec2, L.T, L.T)]

\* e, lines 254-256: the addition step of an iteration on the character "1"
EAdd(bn, L) ==
    [L EXCEPT
        !.f = FMul(bn.fpk, L.f, _g_fn(bn, _phi(bn, L.T), L._Q, L._P)),
        !.T = add(bn.ec2, L.T, L.Q)]

\* the loop moves on to the next character
ENextChar(L) == [L EXCEPT !.chars = Tail(L.chars), !.iters = L.iters + 1]

\* e, lines 247-256: one iteration of the loop
EIterate(bn, L) ==
    ENextChar(IF Head(L.chars) = "1" THEN EAdd(bn, EDouble(bn, L))
              ELSE EDouble(bn, L))

\* e, line 258
EFrob1(bn, L) ==
    [L EXCEPT !._Q1 = <<FFrob(bn.fpk, L._Q[1]), FFrob(bn.fpk, L._Q[2])>>]

\* e, line 259
EFrob2(bn, L) ==
    [L EXCEPT !._Q2 = <<FFrob(bn.fpk, L._Q1[1]),
                        FNeg(bn.fpk, FFrob(bn.fpk, L._Q1[2]))>>]

\* e, lines 261-264: the first correction step
ECorrect1(bn, L) ==
    [L EXCEPT
        !.f = FMul(bn.fpk, L.f, _g_fn(bn, _phi(bn, L.T), L._Q1, L._P)),
        !.T = add(bn.ec2, L.T, _phi_inv(bn, L._Q1))]

\* e, lines 266-267: the second correction step
ECorrect2(bn, L) ==
    [L EXCEPT
        !.f = FMul(bn.fpk, L.f, _g_fn(bn, _phi(bn, L.T), L._Q2, L._P))]

RECURSIVE ELoop(_, _)
\* e, lines 247-256: the loop from the local variables L on
ELoop(bn, L) ==
    IF L.chars = <<>> THEN L ELSE ELoop(bn, EIterate(bn, L))

\* BNBIDH.e
e(bn, P, Q) ==
    _finalexp(bn,
        ECorrect2(bn, ECorrect1(bn, EFrob2(bn, EFrob1(bn,
            ELoop(bn, EEnter(bn, P, Q)))))).f)

\* points of E(Fp12) for the arguments U and V of _g_fn: the images of
\* G2, 2*G2, -G2 and of a pair off the twist with the x of G2, and the
\* point at infinity
TestLinePoints(bn) ==
    {_phi(bn, T) : T \in
        {bn.G2, add(bn.ec2, bn.G2, bn.G2), neg(bn.ec2, bn.G2),
         <<bn.G2[1], <<1, 1>>>>}}
        \cup {INF(bn.fpk)}

\* points of E(Fp12) for the argument Q of _g_fn: G1 and the point at
\* infinity
TestLineArgs(bn) ==
    {<<FExtend(bn.fpk, bn.G1[1]), FExtend(bn.fpk, bn.G1[2])>>, INF(bn.fpk)}

RECURSIVE NaiveSum(_, _, _)
\* P + P + ... + P, n terms, by repeated addition
NaiveSum(C, n, P) ==
    IF n = 1 THEN P ELSE add(C, NaiveSum(C, n - 1, P), P)

\* the order of the affine point P
Order(C, P) ==
    CHOOSE n \in 2 .. 2 * C.fp.p + 1 :
        /\ NaiveSum(C, n, P) = INF(C.fp)
        /\ \A m \in 1 .. n - 1 : NaiveSum(C, m, P) # INF(C.fp)

(***************************************************************************)
(* The method table: every call of a method, as the message                *)
(* <<method, k, p, x, y>> for a method of the field of degree k over Fp,   *)
(* <<method, object, arguments ...>> for a method of a class of this       *)
(* module.                                                                *)
(***************************************************************************)
Invoke(m) ==
    LET k == m[2]
        p == m[3]
        x == m[4]
        y == m[5]
        s == Below(k)
    IN
    CASE m[1] = "add" ->
        IF k = 1
        THEN IF IsFloat(x) \/ IsFloat(y) THEN PyNaN ELSE AddMod(p, x, y)
        ELSE IF k = 12
        THEN <<KAdd(4, p, x[1], y[1]), KAdd(4, p, x[2], y[2]),
               KAdd(4, p, x[3], y[3])>>
        ELSE <<KAdd(s, p, x[1], y[1]), KAdd(s, p, x[2], y[2])>>
      [] m[1] = "sub" ->
        IF k = 1
        THEN IF IsFloat(x) \/ IsFloat(y) THEN PyNaN ELSE SubMod(p, x, y)
        ELSE IF k = 12
        THEN <<KSub(4, p, x[1], y[1]), KSub(4, p, x[2], y[2]),
               KSub(4, p, x[3], y[3])>>
        ELSE <<KSub(s, p, x[1], y[1]), KSub(s, p, x[2], y[2])>>
      [] m[1] = "mul" ->
        IF k = 1
        THEN IF IsFloat(x) \/ IsFloat(y) THEN PyNaN ELSE MulMod(p, x, y)
        ELSE IF k = 12
        THEN LET v0 == KMul(4, p, x[3], y[3])
                 v1 == KMul(4, p, x[2], y[2])
                 v2 == KMul(4, p, x[1], y[1])
                 t12 == KMul(4, p, KAdd(4, p, x[2], x[1]),
                             KAdd(4, p, y[2], y[1]))
                 t01 == KMul(4, p, KAdd(4, p, x[3], x[2]),
                             KAdd(4, p, y[3], y[2]))
                 t02 == KMul(4, p, KAdd(4, p, x[3], x[1]),
                             KAdd(4, p, y[3], y[1]))
             IN  IF Lift(4, PyNaN) \in {v0, v1, v2, t12, t01, t02}
                 THEN Lift(12, PyNaN)
                 ELSE <<KAdd(4, p, KSub(4, p, KSub(4, p, t02, v0), v2), v1),
                        KAdd(4, p, KSub(4, p, KSub(4, p, t01, v0), v1),
                             KXi(12, p, v2)),
                        KAdd(4, p, v0,
                             KXi(12, p,
                                 KSub(4, p, KSub(4, p, t12, v1), v2)))>>
        ELSE LET m0 == KMul(s, p, x[2], y[2])
                 m1 == KMul(s, p, x[1], y[1])
                 m2 == KMul(s, p, KAdd(s, p, x[1], x[2]),
                            KAdd(s, p, y[1], y[2]))
             IN  IF Lift(s, PyNaN) \in {m0, m1, m2} THEN Lift(k, PyNaN)
                 ELSE <<KSub(s, p, KSub(s, p, m2, m0), m1),
                        KAdd(s, p, m0, KXi(k, p, m1))>>
      [] m[1] = "xi" ->
        IF k = 2 THEN SubMod(p, 0, AddMod(p, x, x))
        ELSE <<x[2], KXi(s, p, x[1])>>
      [] m[1] = "neg" ->
        IF k = 1
        THEN IF x = PyInf THEN PyNegInf
             ELSE IF IsFloat(x) THEN PyNaN
             ELSE SubMod(p, 0, x)
        ELSE IF k = 12
        THEN <<KNeg(4, p, x[1]), KNeg(4, p, x[2]), KNeg(4, p, x[3])>>
        ELSE <<KNeg(s, p, x[1]), KNeg(s, p, x[2])>>
      \* smul: the integer y times x
      [] m[1] = "smul" ->
        IF k = 1
        THEN IF IsFloat(x) THEN PyNaN ELSE MulMod(p, y % p, x)
        ELSE IF k = 12
        THEN <<KSmul(4, p, y, x[1]), KSmul(4, p, y, x[2]),
               KSmul(4, p, y, x[3])>>
        ELSE <<KSmul(s, p, y, x[1]), KSmul(s, p, y, x[2])>>
      \* x^y
      [] m[1] = "pow" ->
        IF k = 1
        THEN IF IsFloat(x) THEN PyNaN ELSE PowMod(p, x, y)
        ELSE IF y = 0 THEN Extend(k, 1 % p)
        ELSE LET h == KPow(k, p, x, y \div 2)
             IN  IF h = Lift(k, 0) THEN h
                 ELSE IF y % 2 = 1 THEN KMul(k, p, KMul(k, p, h, h), x)
                 ELSE KMul(k, p, h, h)
      [] m[1] = "inv" ->
        \* Fermat
        IF k = 1
        THEN IF IsFloat(x) THEN PyNaN ELSE PowMod(p, x, p - 2)
        \* 1/x = (c2*w^2 + c1*w + c0) / (x0*c0 + v*(x2*c1 + x1*c2))
        ELSE IF k = 12
        THEN LET c0 == KSub(4, p, KMul(4, p, x[3], x[3]),
                            KXi(12, p, KMul(4, p, x[2], x[1])))
                 c1 == KSub(4, p, KXi(12, p, KMul(4, p, x[1], x[1])),
                            KMul(4, p, x[3], x[2]))
                 c2 == KSub(4, p, KMul(4, p, x[2], x[2]),
                            KMul(4, p, x[3], x[1]))
                 n == KAdd(4, p, KMul(4, p, x[3], c0),
                           KXi(12, p, KAdd(4, p, KMul(4, p, x[1], c1),
                                           KMul(4, p, x[2], c2))))
                 d == KInv(4, p, n)
             IN  IF Lift(4, PyNaN) \in {c0, c1, c2, n, d}
                 THEN Lift(12, PyNaN)
                 ELSE <<KMul(4, p, c2, d), KMul(4, p, c1, d),
                        KMul(4, p, c0, d)>>
        \* 1/x = (x0 - x1*g) / (x0^2 - xi*x1^2) for the generator g
        ELSE LET n == KSub(s, p, KMul(s, p, x[2], x[2]),
                           KXi(k, p, KMul(s, p, x[1], x[1])))
                 d == KInv(s, p, n)
             IN  IF Lift(s, PyNaN) \in {n, d} THEN Lift(k, PyNaN)
                 ELSE <<KNeg(s, p, KMul(s, p, x[1], d)),
                        KMul(s, p, x[2], d)>>
      \* frob of PrimeField12: x^p.  With w^12 = -2 in Fp and 12 | p - 1
      \* the power w^p is c*w for c = (-2)^((p-1)/12), and the coefficient
      \* of w^e, e = i + 3*j + 6*h for w^i v^j u^h, is scaled by c^e.
      [] m[1] = "frob" ->
        Invoke(<<"frobc", k, p, x, PowMod(p, p - 2, (p - 1) \div 12)>>)
      [] m[1] = "frobc" ->
        LET C(d, a) == KMul(1, p, Pow16(p, y, d), a)
        IN  <<<<<<C(11, x[1][1][1]), C(5, x[1][1][2])>>,
                <<C(8, x[1][2][1]), C(2, x[1][2][2])>>>>,
              <<<<C(10, x[2][1][1]), C(4, x[2][1][2])>>,
                <<C(7, x[2][2][1]), C(1, x[2][2][2])>>>>,
              <<<<C(9, x[3][1][1]), C(3, x[3][1][2])>>,
                <<C(6, x[3][2][1]), x[3][2][2]>>>>>>
      \* the methods of EllipticCurve and ECDLP, as called from outside
      [] m[1] = "EllipticCurve.isvalid" -> isvalid(m[2], m[3])
      [] m[1] = "EllipticCurve.neg" -> neg(m[2], m[3])
      [] m[1] = "EllipticCurve.add" -> add(m[2], m[3], m[4])
      [] m[1] = "EllipticCurve.sub" -> sub(m[2], m[3], m[4])
      [] m[1] = "EllipticCurve.mul" -> mul(m[2], m[3], m[4])
      [] m[1] = "ECDLP.kG" -> kG(m[2], m[3])
      [] m[1] = "Order" -> Order(m[2], m[3])
      \* the methods of BNBIDH, and the statements of e
      [] m[1] = "BNBIDH" -> BNBIDH(m[2], m[3], m[4], m[5], m[6])
      [] m[1] = "BNBIDH._phi" -> _phi(m[2], m[3])
      [] m[1] = "BNBIDH._phi_inv" -> _phi_inv(m[2], m[3])
      [] m[1] = "BNBIDH._g_fn" -> _g_fn(m[2], m[3], m[4], m[5])
      [] m[1] = "BNBIDH._finalexp" -> _finalexp(m[2], m[3])
      [] m[1] = "BNBIDH.e" -> e(m[2], m[3], m[4])
      [] m[1] = "TestLinePoints" -> TestLinePoints(m[2])
      [] m[1] = "e:242" -> EEnter(m[2], m[3], m[4])
      [] m[1] = "e:248" -> EDouble(m[2], m[3])
      [] m[1] = "e:254" -> EAdd(m[2], m[3])
      [] m[1] = "e:258" -> EFrob1(m[2], m[3])
      [] m[1] = "e:259" -> EFrob2(m[2], m[3])
      [] m[1] = "e:261" -> ECorrect1(m[2], m[3])
      [] m[1] = "e:266" -> ECorrect2(m[2], m[3])


(***************************************************************************)
(* Test curves and their points.                                           *)
(***************************************************************************)
\* moduli of the test curves
TestPrimes == {5, 7}

\* the coefficient a of a test curve ranges over 0..MaxA
MaxA == 1

\* the non-singular curves y^2 = x^3 + a*x + b over the test fields
TestCurves ==
    {Curve(Field(1, t[1]), t[2], t[3]) : t \in
        {t \in TestPrimes \X (0 .. MaxA) \X (0 .. 6) :
            /\ t[3] < t[1]
            /\ (4 * t[2] * t[2] * t[2] + 27 * t[3] * t[3]) % t[1] # 0}}

\* every pair of field elements, on the curve or not
AnyPairs(C) == (0 .. C.fp.p - 1) \X (0 .. C.fp.p - 1)

\* y^2 = x^3 + a*x + b, computed on integers
OnCurve(C, P) ==
    (P[2] * P[2]) % C.fp.p
        = (P[1] * P[1] * P[1] + C.a * P[1] + C.b) % C.fp.p

AffinePoints(C) == {P \in AnyPairs(C) : OnCurve(C, P)}
ValidPoints(C) == AffinePoints(C) \cup {INF(C.fp)}

(***************************************************************************)
(* Test parameters of the pairing engine: the BN curve of seed t = 82,     *)
(* y^2 = x^3 + 11 over Fp, p = 1647649453, with generators G1 of E(Fp)     *)
(* and G2 of the twist E'(Fp2): y^2 = x^3 + 11*u, both of prime order      *)
(* n = 1647609109.                                                         *)
(***************************************************************************)
TestParams ==
    [t |-> 82,
     b |-> 11,
     G1 |-> <<1, 999897703>>,
     G2 |-> <<<<83891160, 341373121>>, <<1193311577, 1158012129>>>>]

\* the curve E(Fp) of G1
TestCurveG1 ==
    Curve(Field(1, 1647649453), 0, TestParams.b)

\* seeds and twist parameters the constructor is called with
TestSeeds == {1, 2, TestParams.t}
TestBetas == {<<1, 0>>, <<0, 1>>, <<1, 1>>, <<0, 0>>, <<2, 0>>}

\* coefficients of the Fp2 coordinates _phi is called with
TestCoefs == {0, 1, 2, 1647649452, 341373121}

\* scalars a of a*G1 and b of b*G2 in the calls of e
MaxScalarG1 == 2
MaxScalarG2 == 3

(***************************************************************************)
(* State: the object under test, the last call made on it, and the         *)
(* position and local variables of a running call of BNBIDH.e.             *)
(***************************************************************************)
VARIABLES
    ec,     \* the EllipticCurve object
    bn,     \* the BNBIDH object (<<>>: none constructed)
    op,     \* the operation last called ("new": none, the object is idle)
    args,   \* its arguments
    res,    \* what it returned (a raised exception is a Raised point)
    pc,     \* the line a running call of e has reached ("idle": none runs)
    frame   \* the local variables of the running call of e

vars == <<ec, bn, op, args, res, pc, frame>>

\* the object is idle: a call can be made on it
Idle == op = "new"

\* a call's outcome is recorded
Call(o, a, r) ==
    /\ op' = o
    /\ args' = a
    /\ res' = r
    /\ UNCHANGED <<ec, bn, pc, frame>>

\* the caller takes the result; the object, immutable, is idle again
Return ==
    /\ op # "new"
    /\ pc = "idle"
    /\ op' = "new"
    /\ args' = <<>>
    /\ res' = <<>>
    /\ frame' = <<>>
    /\ UNCHANGED <<ec, bn, pc>>

(***************************************************************************)
(* Calls on an EllipticCurve over a small prime field.                     *)
(***************************************************************************)
Init ==
    /\ ec \in TestCurves
    /\ bn = <<>>
    /\ op = "new"
    /\ args = <<>>
    /\ res = <<>>
    /\ pc = "idle"
    /\ frame = <<>>

OpIsValid ==
    /\ Idle
    /\ \E P \in AnyPairs(ec) \cup {INF(ec.fp)} :
           Call("isvalid", <<P>>, Invoke(<<"EllipticCurve.isvalid", ec, P>>))

OpNeg ==
    /\ Idle
    /\ \E P \in ValidPoints(ec) :
           Call("neg", <<P>>, Invoke(<<"EllipticCurve.neg", ec, P>>))

OpAdd ==
    /\ Idle
    /\ \E P1, P2 \in AnyPairs(ec) \cup {INF(ec.fp)} :
           Call("add", <<P1, P2>>,
                Invoke(<<"EllipticCurve.add", ec, P1, P2>>))

OpSub ==
    /\ Idle
    /\ \E P1, P2 \in ValidPoints(ec) :
           Call("sub", <<P1, P2>>,
                Invoke(<<"EllipticCurve.sub", ec, P1, P2>>))

OpMul ==
    /\ Idle
    /\ \E k \in -MaxNegK .. MaxK, P \in ValidPoints(ec) :
           Call("mul", <<k, P>>, Invoke(<<"EllipticCurve.mul", ec, k, P>>))

\* kG on an ECDLP object built over the curve with base point G of order n
OpKG ==
    /\ Idle
    /\ \E G \in AffinePoints(ec), k \in 1 .. MaxK :
           LET D == NewECDLP(ec, G, Invoke(<<"Order", ec, G>>))
           IN  Call("kG", <<k, D.G, D.n>>, Invoke(<<"ECDLP.kG", D, k>>))

Next == OpIsValid \/ OpNeg \/ OpAdd \/ OpSub \/ OpMul \/ OpKG \/ Return

Spec == Init /\ [][Next]_vars

(***************************************************************************)
(* Construction of BNBIDH objects, and calls of _phi, _phi_inv and _g_fn   *)
(* on the engine of the test parameters.                                   *)
(***************************************************************************)
InitBN ==
    /\ ec = TestCurveG1
    /\ bn = <<>>
    /\ op = "new"
    /\ args = <<>>
    /\ res = <<>>
    /\ pc = "idle"
    /\ frame = <<>>

\* BNBIDH(t, b, beta, G1, G2): the object exists if the constructor returns
BnNew ==
    /\ Idle
    /\ bn = <<>>
    /\ \E t \in TestSeeds, beta \in TestBetas :
           LET r == Invoke(<<"BNBIDH", t, TestParams.b, beta,
                            TestParams.G1, TestParams.G2>>)
           IN  /\ op' = "BNBIDH"
               /\ args' = <<t, TestParams.b, beta,
                            TestParams.G1, TestParams.G2>>
               /\ res' = r
               /\ bn' = IF "error" \in DOMAIN r THEN <<>> ELSE r
               /\ UNCHANGED <<ec, pc, frame>>

\* the object is dropped
BnDrop ==
    /\ Idle
    /\ bn # <<>>
    /\ bn' = <<>>
    /\ UNCHANGED <<ec, op, args, res, pc, frame>>

\* the object was built from the test parameters
IsTestEngine == bn # <<>> /\ bn.t = TestParams.t

\* the points of E'(Fp2) and the pairs off it that _phi is called with
TestTwistPairs ==
    {<<<<c[1], c[2]>>, <<c[3], c[4]>>>> : c \in
        {c \in TestCoefs \X TestCoefs \X TestCoefs \X TestCoefs :
            c[1] <= 2 \/ c[2] = c[3]}}
        \cup {TestParams.G2}

BnPhi ==
    /\ Idle
    /\ IsTestEngine
    /\ \E P \in TestTwistPairs :
           Call("_phi", <<P>>, Invoke(<<"BNBIDH._phi", bn, P>>))

\* _phi_inv called on what _phi returned; frame keeps the argument of _phi
BnPhiInv ==
    /\ op = "_phi"
    /\ op' = "_phi_inv"
    /\ args' = <<res>>
    /\ res' = Invoke(<<"BNBIDH._phi_inv", bn, res>>)
    /\ frame' = args
    /\ UNCHANGED <<ec, bn, pc>>

BnGFn ==
    /\ Idle
    /\ IsTestEngine
    /\ \E U, V \in Invoke(<<"TestLinePoints", bn>>), Q \in TestLineArgs(bn) :
           Call("_g_fn", <<U, V, Q>>, Invoke(<<"BNBIDH._g_fn", bn, U, V, Q>>))

NextBN == BnNew \/ BnDrop \/ BnPhi \/ BnPhiInv \/ BnGFn \/ Return

SpecBN == InitBN /\ [][NextBN]_vars

(***************************************************************************)
(* Calls of BNBIDH.e on the engine of the test parameters, statement by    *)
(* statement.                                                              *)
(***************************************************************************)
InitE ==
    /\ ec = TestCurveG1
    /\ bn = Invoke(<<"BNBIDH", TestParams.t, TestParams.b, <<1, 0>>,
                    TestParams.G1, TestParams.G2>>)
    /\ op = "new"
    /\ args = <<>>
    /\ res = <<>>
    /\ pc = "idle"
    /\ frame = <<>>

\* a statement of e was run: the call is at line l with local variables L
Goto(l, L) ==
    /\ pc' = l
    /\ frame' = L
    /\ UNCHANGED <<ec, bn, op, args, res>>

\* e(a*G1, b*G2) is called and runs up to the loop
ECall ==
    /\ Idle
    /\ \E a \in 1 .. MaxScalarG1, b \in 1 .. MaxScalarG2 :
           LET P == Invoke(<<"EllipticCurve.mul", ec, a, bn.G1>>)
               Q == Invoke(<<"EllipticCurve.mul", bn.ec2, b, bn.G2>>)
           IN  /\ op' = "e"
               /\ args' = <<P, Q>>
               /\ pc' = "247"
               /\ frame' = Invoke(<<"e:242", bn, P, Q>>)
               /\ UNCHANGED <<ec, bn, res>>

\* lines 248-251, and the end of the iteration on the character "0"
EDoubleStep ==
    /\ pc = "247"
    /\ frame.chars # <<>>
    /\ IF Head(frame.chars) = "1"
       THEN Goto("254", Invoke(<<"e:248", bn, frame>>))
       ELSE Goto("247", ENextChar(Invoke(<<"e:248", bn, frame>>)))

\* lines 254-256, and the end of the iteration on the character "1"
EAddStep ==
    /\ pc = "254"
    /\ Goto("247", ENextChar(Invoke(<<"e:254", bn, frame>>)))

\* the loop is left; line 258
EFrob1Step ==
    /\ pc = "247"
    /\ frame.chars = <<>>
    /\ Goto("259", Invoke(<<"e:258", bn, frame>>))

\* line 259
EFrob2Step ==
    /\ pc = "259"
    /\ Goto("261", Invoke(<<"e:259", bn, frame>>))

\* lines 261-264
ECorrect1Step ==
    /\ pc = "261"
    /\ Goto("266", Invoke(<<"e:261", bn, frame>>))

\* lines 266-267
ECorrect2Step ==
    /\ pc = "266"
    /\ Goto("269", Invoke(<<"e:266", bn, frame>>))

\* lines 269-270: the final exponentiation, and e returns
EFinish ==
    /\ pc = "269"
    /\ res' = Invoke(<<"BNBIDH._finalexp", bn, frame.f>>)
    /\ pc' = "idle"
    /\ UNCHANGED <<ec, bn, op, args, frame>>

NextE ==
    \/ ECall \/ EDoubleStep \/ EAddStep \/ EFrob1Step \/ EFrob2Step
    \/ ECorrect1Step \/ ECorrect2Step \/ EFinish \/ Return

SpecE == InitE /\ [][NextE]_vars

(***************************************************************************)
(* Properties of EllipticCurve and ECDLP, read off the recorded call.      *)
(***************************************************************************)
\* the arguments of the recorded call are valid points of the curve
ValidArgs ==
    IF op \in {"mul", "kG"} THEN args[2] \in ValidPoints(ec)
    ELSE \A i \in 1 .. Len(args) : args[i] \in ValidPoints(ec)

\* C2: mul(k, P) is the k-fold sum of P: for a valid point P and k >= 2,
\* mul(k, P) = add(mul(k - 1, P), P) and it is P added to itself k times;
\* and k*G is the point at infinity for the order n of G and for every
\* multiple of n, where an accumulator of the loop is infinity on the way.
C2_MulIsKFoldSum ==
    /\ (op = "mul" /\ args[1] >= 2) =>
           /\ res = add(ec, mul(ec, args[1] - 1, args[2]), args[2])
           /\ res = NaiveSum(ec, args[1], args[2])
    /\ (op = "kG" /\ args[1] % args[3] = 0) => res = INF(ec.fp)

\* C2 witness: 2n*G was computed for a base point G of order n; the
\* accumulator is infinity once the characters of n are consumed
C2_Witness ==
    /\ op = "kG"
    /\ args[1] = 2 * args[3]
    /\ mul(ec, args[3], args[2]) = INF(ec.fp)
    /\ res = INF(ec.fp)

\* C3: for every valid point P, the point at infinity included,
\* add(P, neg(P)) is the point at infinity; neg maps infinity to itself;
\* a point with y = 0 added to itself gives infinity.
C3_AddNegIsInf ==
    /\ (op = "sub" /\ args[1] = args[2]) => res = INF(ec.fp)
    /\ (op = "neg" /\ args[1] = INF(ec.fp)) => res = INF(ec.fp)
    /\ (op = "add" /\ ValidArgs /\ args[1] = args[2] /\ args[1][2] = 0) =>
           res = INF(ec.fp)

\* C4: for valid inputs the result of add, sub and mul is valid, the point
\* at infinity included; isvalid is false for an affine pair off the curve.
C4_MembershipClosed ==
    /\ (op \in {"add", "sub", "mul"} /\ ValidArgs) => isvalid(ec, res)
    /\ (op = "isvalid" /\ args[1] \in AnyPairs(ec) /\ ~OnCurve(ec, args[1]))
           => res = FALSE

\* the case of add that raises: two points, not infinity, with equal x
\* and y neither equal nor opposite
NeitherEqualNorOpposite(P1, P2) ==
    /\ P1 # INF(ec.fp)
    /\ P2 # INF(ec.fp)
    /\ P1[1] = P2[1]
    /\ P1[2] # P2[2]
    /\ (P1[2] + P2[2]) % ec.fp.p # 0

\* C5: add raises the error exactly when called with two points, neither
\* infinity, that have x1 = x2 and y1 neither equal to y2 nor opposite
\* to it; in every other case it returns a point.
C5_AddRaisesExactly ==
    op = "add" =>
        (res = Raised(ec.fp, ErrUnknown)
            <=> NeitherEqualNorOpposite(args[1], args[2]))

\* C5 witness: add was called on such a pair and raised
C5_Witness ==
    /\ op = "add"
    /\ NeitherEqualNorOpposite(args[1], args[2])
    /\ res = Raised(ec.fp, ErrUnknown)

\* C7: mul special-cases k <= 0: for an affine point P of the curve,
\* mul(0, P) is the point at infinity or is rejected, and mul(k, P) for
\* k < 0 is neg(mul(-k, P)) or is rejected.
C7_MulNonPositive ==
    /\ (op = "mul" /\ args[1] = 0 /\ args[2] \in AffinePoints(ec)) =>
           res = INF(ec.fp) \/ IsRaised(ec.fp, res)
    /\ (op = "mul" /\ args[1] < 0 /\ args[2] \in AffinePoints(ec)) =>
           res = neg(ec, mul(ec, -args[1], args[2])) \/ IsRaised(ec.fp, res)

(***************************************************************************)
(* Properties of BNBIDH, read off the recorded call and the running call   *)
(* of e.                                                                   *)
(***************************************************************************)
\* C6: the constructor called with beta other than (1, 0) raises
\* NotImplementedError and leaves no object and no derived attribute;
\* with beta = (1, 0) it returns the object with
\* p = 36t^4 + 36t^3 + 24t^2 + 6t + 1, n = p - 6t^2 and _a = 6t + 2.
C6_Constructor ==
    op = "BNBIDH" =>
        IF args[3] # <<1, 0>>
        THEN /\ res = [error |-> "NotImplementedError"]
             /\ bn = <<>>
        ELSE /\ bn = res
             /\ res.t = args[1]
             /\ res.p = (((36 * args[1] + 36) * args[1] + 24) * args[1] + 6)
                            * args[1] + 1
             /\ res.n = res.p - 6 * args[1] * args[1]
             /\ res._a = 6 * args[1] + 2

\* C6 witness: the constructor was called with an unsupported beta and
\* raised
C6_Witness ==
    /\ op = "BNBIDH"
    /\ args[3] = <<0, 1>>
    /\ res = [error |-> "NotImplementedError"]
    /\ bn = <<>>

\* C8: in every case where _g_fn does not raise it returns one element of
\* Fp12 (three Fp4 coefficients), and for U, V with equal x and opposite
\* y that element is xQ - xV.
C8_GFnReturnsElement ==
    (op = "_g_fn" /\ res # Lift(12, ErrUnknown)) =>
        /\ Len(res) = 3
        /\ \A i \in 1 .. 3 : Len(res[i]) = 2 /\ Len(res[i][1]) = 2
        /\ (/\ INF(bn.fpk) \notin {args[1], args[2], args[3]}
            /\ args[1][1] = args[2][1]
            /\ FIsOppo(bn.fpk, args[1][2], args[2][2]))
               => res = FSub(bn.fpk, args[3][1], args[2][1])

\* the coefficient of 1 of the coordinate c of a point of E(Fp12) in the
\* slots other than slot s are zero
OtherSlotsZero(c, s) ==
    /\ \A i \in (1 .. 3) \ {s} : c[i] = <<<<0, 0>>, <<0, 0>>>>
    /\ c[s][2] = <<0, 0>>

\* C9: _phi_inv(_phi(P)) = P for every pair P of Fp2 elements, where
\* _phi puts (x[1] / (-2), x[0]) into slot [1][0] of the x coordinate and
\* (y[1] / (-2), y[0]) into slot [2][0] of the y coordinate, zero elsewhere.
C9_PhiInvLeftInverse ==
    /\ op = "_phi_inv" => res = frame[1]
    /\ op = "_phi" =>
           /\ MulMod(bn.p, bn._inv_neg2, bn.p - 2) = 1
           /\ res[1][2][1] = <<MulMod(bn.p, args[1][1][2], bn._inv_neg2),
                               args[1][1][1]>>
           /\ res[2][3][1] = <<MulMod(bn.p, args[1][2][2], bn._inv_neg2),
                               args[1][2][1]>>
           /\ OtherSlotsZero(res[1], 2)
           /\ OtherSlotsZero(res[2], 3)

\* C9 witness: G2 came back from _phi_inv(_phi(G2))
C9_Witness ==
    /\ op = "_phi_inv"
    /\ frame = <<TestParams.G2>>
    /\ args = <<_phi(bn, TestParams.G2)>>
    /\ res = TestParams.G2

RECURSIVE BitLength(_)
\* the number of binary digits of n > 0
BitLength(n) == IF n < 2 THEN 1 ELSE 1 + BitLength(n \div 2)

RECURSIVE TwoTo(_)
TwoTo(k) == IF k = 0 THEN 1 ELSE 2 * TwoTo(k - 1)

\* the integer whose binary digits are those of _a that the running call
\* has consumed, the leading one included
ConsumedBits == bn._a \div TwoTo(Len(frame.chars))

\* C10: whenever the running call of e is at the head of its loop it has
\* run as many iterations as it consumed bits of 6t + 2 after the leading
\* one, and T = ec2.mul(m, Q) for the integer m of the bits consumed; at
\* the exit it has run bitlength(6t + 2) - 1 iterations and
\* T = ec2.mul(6t + 2, Q).
C10_MillerInvariant ==
    (op = "e" /\ pc = "247") =>
        /\ frame.iters + Len(frame.chars) = BitLength(6 * bn.t + 2) - 1
        /\ frame.T = mul(bn.ec2, ConsumedBits, frame.Q)
        /\ frame.chars = <<>> =>
               /\ frame.iters = BitLength(6 * bn.t + 2) - 1
               /\ frame.T = mul(bn.ec2, 6 * bn.t + 2, frame.Q)

\* C10 witness: the loop of e(G1, 3*G2) is left after 8 iterations with
\* T = 494 * Q
C10_Witness ==
    /\ op = "e"
    /\ pc = "247"
    /\ frame.chars = <<>>
    /\ frame.iters = 8
    /\ frame.Q = mul(bn.ec2, 3, bn.G2)
    /\ frame.T = mul(bn.ec2, 494, frame.Q)
    /\ frame.T # INF(bn.fp2)

\* C1: e(a*G1, b*G2) = e(G1, G2)^(a*b) in Fp12 for the scalars a, b >= 1
\* of the calls made.
C1_Bilinear ==
    (op = "e" /\ pc = "idle") =>
        \A a \in 1 .. MaxScalarG1, b \in 1 .. MaxScalarG2 :
            args = <<mul(ec, a, bn.G1), mul(bn.ec2, b, bn.G2)>> =>
                res = FPow(bn.fpk, e(bn, bn.G1, bn.G2), a * b)

\* C1 witness: e(2*G1, 3*G2) returned e(G1, G2)^6, which is not 1
C1_Witness ==
    /\ op = "e"
    /\ pc = "idle"
    /\ args = <<mul(ec, 2, bn.G1), mul(bn.ec2, 3, bn.G2)>>
    /\ res = FPow(bn.fpk, e(bn, bn.G1, bn.G2), 6)
    /\ res # FOne(bn.fpk)

====
